---- MODULE Spec2Model ----
(***************************************************************************)
(* A model of homebrew_mcp.py: the COMMANDS catalog, the tool functions    *)
(* that create_tool_function generates from it, execute_brew_command, the  *)
(* JSON audit log and the startup sequence of main().                      *)
(*                                                                         *)
(* Python values are records [k, s, l, b] of one shape: k is the kind      *)
(* ("absent" for an argument the caller did not pass, "none", "str",       *)
(* "list", "bool"), and s, l, b carry the string, the list of strings or   *)
(* the boolean.  Argument-vector tokens are strings.  Captured output and  *)
(* returned messages are texts: sequences of tokens, each token a          *)
(* whitespace character or a piece of text that neither starts nor ends    *)
(* with whitespace; the text the sequence stands for is the concatenation  *)
(* of its tokens.                                                          *)
(***************************************************************************)
EXTENDS Integers, Sequences, FiniteSets, TLC

VARIABLES pc, todo, registry, log, lock, call, nInvoked, descriptions, environ

vars == <<pc, todo, registry, log, lock, call, nInvoked, descriptions, environ>>

(***************************************************************************)
(* Bounds of the model.                                                    *)
(***************************************************************************)
\* longest list of names passed for a list parameter
MaxList == 2
\* most options a single call passes explicitly
MaxOpts == 3
\* most tokens in a captured stdout or stderr
MaxOut == 2
\* most invocations dispatched when invocations may overlap
MaxCalls == 2
\* the entries of an ambient PATH
MaxPath == 2

\* the two dispatcher threads a transport may run tool calls on
Threads == {1, 2}

(***************************************************************************)
(* Python values.                                                          *)
(***************************************************************************)
Absent == [k |-> "absent", s |-> "", l |-> <<>>, b |-> FALSE]
None == [k |-> "none", s |-> "", l |-> <<>>, b |-> FALSE]
Str(x) == [k |-> "str", s |-> x, l |-> <<>>, b |-> FALSE]
List(x) == [k |-> "list", s |-> "", l |-> x, b |-> FALSE]
Bool(x) == [k |-> "bool", s |-> "", l |-> <<>>, b |-> x]

\* Python truthiness, as `if value:` tests it
Truthy(v) ==
    CASE v.k = "str" -> v.s # ""
      [] v.k = "list" -> v.l # <<>>
      [] v.k = "bool" -> v.b
      [] OTHER -> FALSE

RECURSIVE ReprItems(_)
ReprItems(l) ==
    IF l = <<>> THEN ""
    ELSE IF Len(l) = 1 THEN "'" \o l[1] \o "'"
    ELSE "'" \o l[1] \o "', " \o ReprItems(Tail(l))

\* str(value)
PyStr(v) ==
    CASE v.k = "str" -> v.s
      [] v.k = "bool" -> (IF v.b THEN "True" ELSE "False")
      [] v.k = "list" -> "[" \o ReprItems(v.l) \o "]"
      [] OTHER -> "None"

(***************************************************************************)
(* The catalog.  An entry without a "base_command" key has hasBase FALSE.  *)
(***************************************************************************)
Param(n, t, r) == [name |-> n, type |-> t, required |-> r]
Option(n, f, t) == [name |-> n, flag |-> f, type |-> t]
Entry(d, ps, os) ==
    [description |-> d, hasBase |-> FALSE, base_command |-> <<>>, params |-> ps, options |-> os]

COMMANDS ==
    [install |-> Entry("Installs the given formula or cask.",
        <<Param("names", "list", TRUE)>>,
        <<Option("cask", "--cask", "bool"), Option("force", "--force", "bool"),
          Option("verbose", "--verbose", "bool"), Option("dry_run", "--dry-run", "bool"),
          Option("build_from_source", "--build-from-source", "bool"),
          Option("HEAD", "--HEAD", "bool")>>),
     uninstall |-> Entry("Uninstalls the given formula or cask.",
        <<Param("names", "list", TRUE)>>,
        <<Option("cask", "--cask", "bool"), Option("force", "--force", "bool"),
          Option("zap", "--zap", "bool")>>),
     untap |-> Entry("Removes the given tap(s).", <<Param("names", "list", TRUE)>>, <<>>),
     upgrade |-> Entry("Upgrades outdated casks and formulae.",
        <<Param("names", "list", FALSE)>>,
        <<Option("cask", "--cask", "bool"), Option("greedy", "--greedy", "bool"),
          Option("dry_run", "--dry-run", "bool"), Option("force", "--force", "bool")>>),
     list |-> Entry("Lists installed formulae or casks.", <<>>,
        <<Option("cask", "--cask", "bool"), Option("versions", "--versions", "bool"),
          Option("pinned", "--pinned", "bool")>>),
     search |-> Entry("Performs a search of formulae and casks.",
        <<Param("query", "str", TRUE)>>, <<Option("casks", "--casks", "bool")>>),
     info |-> Entry("Displays information about a formula or cask.",
        <<Param("name", "str", TRUE)>>, <<Option("json_format", "--json", "str")>>),
     doctor |-> Entry("Checks your system for potential problems.", <<>>, <<>>),
     update |-> Entry("Fetches the newest version of Homebrew and all formulae.", <<>>, <<>>),
     outdated |-> Entry("Shows formulae and casks that have an updated version available.",
        <<>>, <<Option("cask", "--cask", "bool"), Option("greedy", "--greedy", "bool")>>),
     cleanup |-> Entry("Removes stale lock files and outdated downloads for a specific formula or cask, or for all if none is specified.",
        <<Param("name", "str", FALSE)>>,
        <<Option("dry_run", "--dry-run", "bool"), Option("scrub_cache", "-s", "bool")>>),
     services |-> [description |-> "Manages Homebrew services.", hasBase |-> TRUE,
                   base_command |-> <<"services">>,
                   params |-> <<Param("subcommand", "str", TRUE), Param("name", "str", FALSE)>>,
                   options |-> <<>>],
     tap |-> Entry("Adds the given tap(s).", <<Param("names", "list", TRUE)>>, <<>>),
     pin |-> Entry("Pins the given formula(e), preventing them from being upgraded.", <<Param("names", "list", TRUE)>>, <<>>),
     unpin |-> Entry("Unpins the given formula(e), allowing them to be upgraded.", <<Param("names", "list", TRUE)>>, <<>>),
     deps |-> Entry("Shows the dependencies for the given formula(e).",
        <<Param("names", "list", TRUE)>>, <<>>)]

\* COMMANDS.items() iterates in insertion order
CommandNames ==
    <<"install", "uninstall", "untap", "upgrade", "list", "search", "info", "doctor",
      "update", "outdated", "cleanup", "services", "tap", "pin", "unpin", "deps">>

Range(f) == {f[x] : x \in DOMAIN f}

ParamNames(name) == {p.name : p \in Range(COMMANDS[name].params)}
OptionNames(name) == {o.name : o \in Range(COMMANDS[name].options)}

(***************************************************************************)
(* create_tool_function: the generated signature and the generated body.   *)
(***************************************************************************)
\* the default the generated signature gives a parameter; Absent = no default
ParamDefault(param) == IF param.required THEN Absent ELSE None
OptionDefault(option) == IF option.type = "bool" THEN Bool(FALSE) ELSE None

\* the required parameters a call leaves out: Python refuses the call
MissingParams(name, passed) ==
    {p.name : p \in {q \in Range(COMMANDS[name].params) :
                        passed[q.name] = Absent /\ ParamDefault(q) = Absent}}

\* the values the body sees: what was passed, or the signature's default
BindArgs(name, passed) ==
    [n \in DOMAIN passed |->
        IF passed[n] # Absent THEN passed[n]
        ELSE IF \E p \in Range(COMMANDS[name].params) : p.name = n
             THEN ParamDefault(CHOOSE p \in Range(COMMANDS[name].params) : p.name = n)
             ELSE OptionDefault(CHOOSE o \in Range(COMMANDS[name].options) : o.name = n)]

\* config.get("base_command", [name.replace('_', '-')]); no key of COMMANDS
\* holds an underscore, so the replacement leaves each of them as it is
BaseCommand(name) ==
    IF COMMANDS[name].hasBase THEN COMMANDS[name].base_command ELSE <<name>>

\* the guard generated for a parameter: `if p:` or `if p is not None:`
ParamGuard(param, v) == IF param.required THEN Truthy(v) ELSE v # None

MapStr(l) == [j \in 1..Len(l) |-> PyStr(Str(l[j]))]

\* the tokens a parameter adds when its guard passes
ParamTokens(param, v) ==
    IF param.type = "list"
    THEN (IF v.k = "list" THEN MapStr(v.l) ELSE <<PyStr(v)>>)
    ELSE <<PyStr(v)>>

\* OptionTokens with the guard `if o is not None:` in place of `if o:`
OptionTokens_NotNoneGuard(option, v) ==
    IF v = None THEN <<>>
    ELSE IF option.type = "bool" THEN <<option.flag>>
    ELSE IF option.type = "str" THEN <<option.flag, PyStr(v)>>
    ELSE <<>>

\* OptionTokens with a string option adding its flag alone
OptionTokens_FlagOnly(option, v) ==
    IF ~Truthy(v) THEN <<>> ELSE <<option.flag>>

\* the tokens an option adds: `if o:` then the flag, or the flag and str(o)
OptionTokens(option, v) ==
    IF ~Truthy(v) THEN <<>>
    ELSE IF option.type = "bool" THEN <<option.flag>>
    ELSE IF option.type = "str" THEN <<option.flag, PyStr(v)>>
    ELSE <<>>

RECURSIVE AddParams(_, _, _)
AddParams(command, params, a) ==
    IF params = <<>> THEN command
    ELSE LET p == Head(params)
             next == IF ParamGuard(p, a[p.name])
                     THEN command \o ParamTokens(p, a[p.name])
                     ELSE command
         IN AddParams(next, Tail(params), a)

RECURSIVE AddOptions(_, _, _)
AddOptions(command, options, a) ==
    IF options = <<>> THEN command
    ELSE LET o == Head(options)
         IN AddOptions(command \o OptionTokens(o, a[o.name]), Tail(options), a)

\* the body of the generated function, up to the call of execute_brew_command
BuildCommand(name, a) ==
    AddOptions(AddParams(<<"brew">> \o BaseCommand(name), COMMANDS[name].params, a),
               COMMANDS[name].options, a)

(***************************************************************************)
(* Texts, and the message execute_brew_command returns.                    *)
(***************************************************************************)
Whitespace == {" ", "\n"}

RECURSIVE LStrip(_)
LStrip(t) == IF t # <<>> /\ Head(t) \in Whitespace THEN LStrip(Tail(t)) ELSE t

RECURSIVE RStrip(_)
RStrip(t) ==
    IF t # <<>> /\ t[Len(t)] \in Whitespace THEN RStrip(SubSeq(t, 1, Len(t) - 1)) ELSE t

\* str.strip()
Strip(t) == RStrip(LStrip(t))

ErrorPrefix == <<"Error: ">>
SuccessMessage == <<"Command executed successfully.">>
NotFoundMessage ==
    <<"Error: ", "'brew' command not found. Make sure Homebrew is installed and in your PATH.">>

NoResult == [kind |-> "none", stdout |-> <<>>, stderr |-> <<>>, returncode |-> 0, error |-> <<>>]

\* log_entry["result"] after subprocess.run has returned
ProcResult(proc) ==
    [kind |-> "proc", stdout |-> Strip(proc.stdout), stderr |-> Strip(proc.stderr),
     returncode |-> proc.returncode, error |-> <<>>]

\* log_entry["result"] in the FileNotFoundError handler
ErrorResult(message) ==
    [kind |-> "error", stdout |-> <<>>, stderr |-> <<>>, returncode |-> 0, error |-> message]

\* ResultText without the fallback to stdout
ResultText_NoFallback(result) ==
    IF result.returncode # 0 THEN ErrorPrefix \o result.stderr
    ELSE IF result.stdout # <<>> THEN result.stdout ELSE SuccessMessage

\* ResultText returning the bare stderr or stdout of a failed command
ResultText_NoPrefix(result) ==
    IF result.returncode # 0
    THEN (IF result.stderr # <<>> THEN result.stderr ELSE result.stdout)
    ELSE IF result.stdout # <<>> THEN result.stdout ELSE SuccessMessage

\* ResultText returning stdout as it is, empty or not
ResultText_NoDefault(result) ==
    IF result.returncode # 0
    THEN ErrorPrefix \o (IF result.stderr # <<>> THEN result.stderr ELSE result.stdout)
    ELSE result.stdout

\* the text returned once the process has run: result is ProcResult(proc)
ResultText(result) ==
    IF result.returncode # 0
    THEN ErrorPrefix \o (IF result.stderr # <<>> THEN result.stderr ELSE result.stdout)
    ELSE IF result.stdout # <<>> THEN result.stdout ELSE SuccessMessage

(***************************************************************************)
(* The audit log: one line per record, as JsonFormatter writes it.  The    *)
(* timestamp is left out (the model has no clock); id is the invocation    *)
(* that wrote the line (0 for main), kept to tell the writers apart.       *)
(***************************************************************************)
LogLine(level, msg, id) ==
    [level |-> level, name |-> "homebrew_mcp", event |-> msg.event, tool |-> msg.tool,
     command |-> msg.command, result |-> msg.result, id |-> id]

\* the dictionaries main() logs
MainEvent(event, tool) ==
    [event |-> event, tool |-> tool, command |-> <<>>, result |-> NoResult]

\* log_entry = {"event": "brew_command", "command": command_list}
BrewEntry(command) ==
    [event |-> "brew_command", tool |-> "", command |-> command, result |-> NoResult]

(***************************************************************************)
(* json.dumps of a log dictionary, and json.loads of the line.  A JSON     *)
(* text is a sequence of pieces: the characters JSON gives a meaning       *)
(* (quote, backslash, brackets, braces), the separators ", " and ": ", and *)
(* runs of other characters.                                               *)
(***************************************************************************)
\* the pieces of a string of the model: a string with no quote, backslash
\* or newline in it is one run; the one argument that holds a quote is cut
\* at it
Pieces(s) ==
    IF s = "" THEN <<>>
    ELSE IF s = "w\"get" THEN <<"w", "\"", "get">>
    ELSE <<s>>

RECURSIVE JoinPieces(_)
JoinPieces(t) == IF t = <<>> THEN "" ELSE Head(t) \o JoinPieces(Tail(t))

\* json.dumps escapes the quote, the backslash and the newline
RECURSIVE JsonEscape(_)
JsonEscape(t) ==
    IF t = <<>> THEN <<>>
    ELSE (IF Head(t) \in {"\"", "\\"} THEN <<"\\", Head(t)>>
          ELSE IF Head(t) = "\n" THEN <<"\\", "n">>
          ELSE <<Head(t)>>) \o JsonEscape(Tail(t))

\* a string literal, from the pieces of the string
JsonString(t) == <<"\"">> \o JsonEscape(t) \o <<"\"">>

RECURSIVE JsonItems(_)
JsonItems(l) ==
    IF l = <<>> THEN <<>>
    ELSE IF Len(l) = 1 THEN JsonString(Pieces(l[1]))
    ELSE JsonString(Pieces(l[1])) \o <<", ">> \o JsonItems(Tail(l))

\* a list of strings
JsonArray(l) == <<"[">> \o JsonItems(l) \o <<"]">>

JsonMember(key, value) == JsonString(<<key>>) \o <<": ">> \o value

\* log_entry["result"]: the output and the exit code, or the error
JsonResult(result) ==
    IF result.kind = "proc"
    THEN <<"{">> \o JsonMember("stdout", JsonString(result.stdout)) \o <<", ">>
         \o JsonMember("stderr", JsonString(result.stderr)) \o <<", ">>
         \o JsonMember("returncode", <<ToString(result.returncode)>>) \o <<"}">>
    ELSE <<"{">> \o JsonMember("error", JsonString(result.error)) \o <<"}">>

\* FormatMembers with the branch for a message that is not a dictionary
\* taken for every record: {"message": record.message}
FormatMembers_MessageOnly(line) ==
    <<", ">> \o JsonMember("message", JsonString(<<line.event>>))

\* **record.msg: the members of the logged dictionary, in its own order
\* (the message and duration members of main()'s records are left out)
FormatMembers(line) ==
    <<", ">> \o JsonMember("event", JsonString(<<line.event>>))
    \o (IF line.tool # "" THEN <<", ">> \o JsonMember("tool_name", JsonString(<<line.tool>>))
        ELSE <<>>)
    \o (IF line.event = "brew_command"
        THEN <<", ">> \o JsonMember("command", JsonArray(line.command))
        ELSE <<>>)
    \o (IF line.result.kind # "none"
        THEN <<", ">> \o JsonMember("result", JsonResult(line.result))
        ELSE <<>>)

\* JsonFormatter.format: the line written for a log dictionary
JsonDumps(line) ==
    <<"{">> \o JsonMember("timestamp", JsonString(<<"1970-01-01T00:00:00+00:00">>))
    \o <<", ">> \o JsonMember("level", JsonString(<<line.level>>))
    \o <<", ">> \o JsonMember("name", JsonString(<<line.name>>))
    \o FormatMembers(line) \o <<"}">>

(***************************************************************************)
(* Reading a line back: a scanner over the pieces.  bad marks a text that  *)
(* is not JSON at the place read.                                          *)
(***************************************************************************)
\* the characters of a string literal from position p, just after the
\* opening quote, to the closing quote
RECURSIVE ScanChars(_, _, _)
ScanChars(t, p, acc) ==
    IF p > Len(t) THEN [bad |-> TRUE, value |-> acc, next |-> p]
    ELSE IF t[p] = "\"" THEN [bad |-> FALSE, value |-> acc, next |-> p + 1]
    ELSE IF t[p] = "\\"
    THEN (IF p + 1 > Len(t) THEN [bad |-> TRUE, value |-> acc, next |-> p]
          ELSE ScanChars(t, p + 2, Append(acc, IF t[p + 1] = "n" THEN "\n" ELSE t[p + 1])))
    ELSE ScanChars(t, p + 1, Append(acc, t[p]))

\* a string literal at position p
ScanString(t, p) ==
    IF p > Len(t) \/ t[p] # "\"" THEN [bad |-> TRUE, value |-> <<>>, next |-> p]
    ELSE ScanChars(t, p + 1, <<>>)

\* the strings of an array from position p, just after "[" or ", "
RECURSIVE ScanItems(_, _, _)
ScanItems(t, p, acc) ==
    LET item == ScanString(t, p)
    IN IF item.bad \/ item.next > Len(t) THEN [bad |-> TRUE, value |-> acc, next |-> p]
       ELSE IF t[item.next] = "]"
       THEN [bad |-> FALSE, value |-> Append(acc, JoinPieces(item.value)),
             next |-> item.next + 1]
       ELSE IF t[item.next] = ", "
       THEN ScanItems(t, item.next + 1, Append(acc, JoinPieces(item.value)))
       ELSE [bad |-> TRUE, value |-> acc, next |-> p]

\* an array of strings at position p
ScanArray(t, p) ==
    IF p + 1 > Len(t) \/ t[p] # "[" THEN [bad |-> TRUE, value |-> <<>>, next |-> p]
    ELSE IF t[p + 1] = "]" THEN [bad |-> FALSE, value |-> <<>>, next |-> p + 2]
    ELSE ScanItems(t, p + 1, <<>>)

\* the "command" member of the object whose members start at position p;
\* the members before it hold strings
RECURSIVE ScanCommand(_, _)
ScanCommand(t, p) ==
    LET key == ScanString(t, p)
    IN IF key.bad \/ key.next > Len(t) \/ t[key.next] # ": "
       THEN [bad |-> TRUE, value |-> <<>>, next |-> p]
       ELSE IF key.value = <<"command">> THEN ScanArray(t, key.next + 1)
       ELSE LET value == ScanString(t, key.next + 1)
            IN IF value.bad \/ value.next > Len(t) \/ t[value.next] # ", "
               THEN [bad |-> TRUE, value |-> <<>>, next |-> p]
               ELSE ScanCommand(t, value.next + 1)

\* json.loads(line)["command"]
JsonLoadsCommand(t) ==
    IF t = <<>> \/ t[1] # "{" THEN [bad |-> TRUE, value |-> <<>>, next |-> 1]
    ELSE ScanCommand(t, 2)

(***************************************************************************)
(* main(): setup, the registration loop, app.run().                        *)
(***************************************************************************)
\* what app.tool(name)(tool_func) registers: the tool's name and the
\* function's docstring (new_func.__doc__ = config['description'])
CreateTool(name) == [name |-> name, description |-> descriptions[name].text]

SetupStart ==
    /\ pc = "start"
    /\ log' = log \o <<LogLine("INFO", MainEvent("server_setup_start", ""), 0),
                       LogLine("INFO", MainEvent("app_initialized", ""), 0),
                       LogLine("INFO", MainEvent("tool_registration_start", ""), 0)>>
    /\ pc' = "registering"
    /\ UNCHANGED <<todo, registry, lock, call, nInvoked, descriptions, environ>>

\* one pass of `for name, config in COMMANDS.items()`
RegisterTool ==
    /\ pc = "registering"
    /\ todo # <<>>
    /\ descriptions[Head(todo)].present
    /\ registry' = Append(registry, CreateTool(Head(todo)))
    /\ log' = Append(log, LogLine("INFO", MainEvent("tool_registered", Head(todo)), 0))
    /\ todo' = Tail(todo)
    /\ UNCHANGED <<pc, lock, call, nInvoked, descriptions, environ>>

\* RegisterRaises with the loop body wrapped in try/except: continue
RegisterRaises_Skip ==
    /\ pc = "registering"
    /\ todo # <<>>
    /\ todo' = Tail(todo)
    /\ UNCHANGED <<pc, registry, log, lock, call, nInvoked, descriptions, environ>>

\* create_tool_function or app.tool raises (config['description'] is a
\* KeyError when the entry has no description): nothing in main() catches
\* it, so the exception leaves main() and the process ends
RegisterRaises ==
    /\ pc = "registering"
    /\ todo # <<>>
    /\ pc' = "aborted"
    /\ UNCHANGED <<todo, registry, log, lock, call, nInvoked, descriptions, environ>>

\* the loop is over: the closing log records, then app.run()
StartServing ==
    /\ pc = "registering"
    /\ todo = <<>>
    /\ log' = log \o <<LogLine("INFO", MainEvent("tool_registration_end", ""), 0),
                       LogLine("INFO", MainEvent("server_setup_end", ""), 0),
                       LogLine("INFO", MainEvent("server_run", ""), 0)>>
    /\ pc' = "serving"
    /\ UNCHANGED <<todo, registry, lock, call, nInvoked, descriptions, environ>>

Main == SetupStart \/ RegisterTool \/ RegisterRaises \/ StartServing

(***************************************************************************)
(* The environment of the child.  os.environ is a function from the names  *)
(* that are set to their values; a value is a sequence of pieces, ":" and  *)
(* runs of other characters, cut so that "/opt/homebrew/sbin" is a piece   *)
(* wherever the value holds these characters.                              *)
(***************************************************************************)
homebrew_sbin == "/opt/homebrew/sbin"

\* os.environ.get(name, "")
EnvironGet(env, name) == IF name \in DOMAIN env THEN env[name] ELSE <<>>

\* `homebrew_sbin in env_path`: the characters occur somewhere in the text
Contains(text, piece) == \E k \in 1..Len(text) : text[k] = piece

\* brew_env: PATH, with homebrew_sbin put first unless the text holds it,
\* and HOME
BrewEnv(env) ==
    LET env_path == EnvironGet(env, "PATH")
    IN [n \in {"PATH", "HOME"} |->
           IF n = "PATH"
           THEN (IF ~Contains(env_path, homebrew_sbin)
                 THEN <<homebrew_sbin, ":">> \o env_path
                 ELSE env_path)
           ELSE EnvironGet(env, "HOME")]

NoEnv == [n \in {} |-> <<>>]

(***************************************************************************)
(* One invocation of a registered tool, on dispatcher thread i.            *)
(*   pc: idle -> spawn -> wait -> log -> emit -> ret -> returned, or raised *)
(***************************************************************************)
NoProc == [stdout |-> <<>>, stderr |-> <<>>, returncode |-> 0]
NoExc == [type |-> "", param |-> ""]

IdleCall ==
    [pc |-> "idle", id |-> 0, tool |-> "", passed |-> <<>>, command |-> <<>>,
     entry |-> BrewEntry(<<>>), level |-> "", outcome |-> "", proc |-> NoProc,
     ret |-> <<>>, exc |-> NoExc, child |-> "none", conc |-> FALSE, env |-> NoEnv]

Finished(c) == c.pc \in {"returned", "raised"}
InFlight(c) == c.pc \notin {"idle", "returned", "raised"}

\* the call of the generated function: Python binds the arguments (a
\* required one left out is a TypeError naming it, and the body never
\* runs), the body builds the command and calls execute_brew_command,
\* which sets up log_entry and the environment
EnterTool(c, id, tool, passed) ==
    IF MissingParams(tool, passed) # {}
    THEN [c EXCEPT !.pc = "raised", !.id = id, !.tool = tool, !.passed = passed,
                   !.exc = [type |-> "TypeError",
                            param |-> CHOOSE n \in MissingParams(tool, passed) : TRUE]]
    ELSE [c EXCEPT !.pc = "spawn", !.id = id, !.tool = tool, !.passed = passed,
                   !.command = BuildCommand(tool, BindArgs(tool, passed)),
                   !.entry = BrewEntry(BuildCommand(tool, BindArgs(tool, passed))),
                   !.env = BrewEnv(environ)]

Invoke(i, Calls, limit) ==
    /\ pc = "serving"
    /\ ~InFlight(call[i])
    /\ nInvoked < limit
    /\ \E c \in Calls :
         LET busy == {j \in Threads \ {i} : InFlight(call[j])}
         IN call' = [j \in Threads |->
                       IF j = i
                       THEN [EnterTool(IdleCall, nInvoked + 1, c.tool, c.passed)
                                EXCEPT !.conc = busy # {}]
                       ELSE IF j \in busy THEN [call[j] EXCEPT !.conc = TRUE]
                       ELSE call[j]]
    /\ nInvoked' = nInvoked + 1
    /\ UNCHANGED <<pc, todo, registry, log, lock, descriptions, environ>>

\* subprocess.run starts the child and waits for it
SpawnStarted(i) ==
    /\ call[i].pc = "spawn"
    /\ call' = [call EXCEPT ![i].pc = "wait", ![i].child = "running",
                            ![i].outcome = "started"]
    /\ UNCHANGED <<pc, todo, registry, log, lock, nInvoked, descriptions, environ>>

\* NotFoundHandler without the except clause: the exception leaves the function
NotFoundHandler_Reraise(c) ==
    [c EXCEPT !.pc = "raised", !.outcome = "notfound",
              !.exc = [type |-> "FileNotFoundError", param |-> ""]]

\* `except FileNotFoundError:` up to the call of logger.error
NotFoundHandler(c) ==
    [c EXCEPT !.pc = "log", !.outcome = "notfound", !.level = "ERROR",
              !.entry.result = ErrorResult(NotFoundMessage)]

\* subprocess.run raises FileNotFoundError: no executable named brew
SpawnNotFound(i) ==
    /\ call[i].pc = "spawn"
    /\ call' = [call EXCEPT ![i] = NotFoundHandler(call[i])]
    /\ UNCHANGED <<pc, todo, registry, log, lock, nInvoked, descriptions, environ>>

\* subprocess.run raises another OSError (brew found but not executable,
\* fork failing): no handler matches, the exception leaves the function
SpawnFails(i) ==
    /\ call[i].pc = "spawn"
    /\ call' = [call EXCEPT ![i].pc = "raised", ![i].outcome = "oserror",
                            ![i].exc = [type |-> "OSError", param |-> ""]]
    /\ UNCHANGED <<pc, todo, registry, log, lock, nInvoked, descriptions, environ>>

\* the child exits and is reaped; subprocess.run returns its output and
\* exit code; the function strips both and fills log_entry["result"]
RunReturns(i, Results) ==
    /\ call[i].pc = "wait"
    /\ call[i].child = "running"
    /\ \E r \in Results :
         call' = [call EXCEPT ![i].pc = "log", ![i].child = "reaped", ![i].proc = r,
                              ![i].level = "INFO", ![i].entry.result = ProcResult(r)]
    /\ UNCHANGED <<pc, todo, registry, log, lock, nInvoked, descriptions, environ>>

\* the child turns out to be one that never exits (it waits for input, or
\* loops): subprocess.run is given no timeout and goes on waiting
ChildHangs(i) ==
    /\ call[i].pc = "wait"
    /\ call[i].child = "running"
    /\ call' = [call EXCEPT ![i].child = "hung"]
    /\ UNCHANGED <<pc, todo, registry, log, lock, nInvoked, descriptions, environ>>

\* logger.info / logger.error: the file handler takes its lock ...
LogAcquire(i) ==
    /\ call[i].pc = "log"
    /\ lock = 0
    /\ lock' = i
    /\ call' = [call EXCEPT ![i].pc = "emit"]
    /\ UNCHANGED <<pc, todo, registry, log, nInvoked, descriptions, environ>>

\* ... formats the record, writes the line in one write, flushes, and
\* gives the lock back
LogEmit(i) ==
    /\ call[i].pc = "emit"
    /\ lock = i
    /\ log' = Append(log, LogLine(call[i].level, call[i].entry, call[i].id))
    /\ lock' = 0
    /\ call' = [call EXCEPT ![i].pc = "ret"]
    /\ UNCHANGED <<pc, todo, registry, nInvoked, descriptions, environ>>

\* the value of the `return` statement reached after the log call
ReturnValue(c) ==
    IF c.outcome = "notfound" THEN c.entry.result.error ELSE ResultText(c.entry.result)

\* execute_brew_command returns, and the tool function returns that value
Return(i) ==
    /\ call[i].pc = "ret"
    /\ call' = [call EXCEPT ![i].pc = "returned", ![i].ret = ReturnValue(call[i])]
    /\ UNCHANGED <<pc, todo, registry, log, lock, nInvoked, descriptions, environ>>

(***************************************************************************)
(* The inputs.                                                             *)
(***************************************************************************)
SeqsUpTo(S, n) == UNION {[1..k -> S] : k \in 0..n}

\* package names
Names == {"wget", "git"}

\* the values a caller may pass for a positional parameter of each type
PosVals(param) ==
    {Absent, None} \cup {Str(s) : s \in {""} \cup Names}
    \cup (IF param.type = "list" THEN {List(l) : l \in SeqsUpTo(Names, MaxList)} ELSE {})

\* the values a caller may pass for an option of each type
OptVals(option) ==
    IF option.type = "bool" THEN {Bool(FALSE), Bool(TRUE)}
    ELSE {None, Str(""), Str("v2")}

PosChoices(name) ==
    {f \in [ParamNames(name) -> UNION {PosVals(p) : p \in Range(COMMANDS[name].params)}] :
        \A p \in Range(COMMANDS[name].params) : f[p.name] \in PosVals(p)}

OptChoices(name) ==
    {f \in [OptionNames(name) ->
              {Absent} \cup UNION {OptVals(o) : o \in Range(COMMANDS[name].options)}] :
        /\ \A o \in Range(COMMANDS[name].options) : f[o.name] \in {Absent} \cup OptVals(o)
        /\ Cardinality({n \in OptionNames(name) : f[n] # Absent}) <= MaxOpts}

\* every call of every tool, within the bounds
ToolCalls ==
    UNION {{[tool |-> name, passed |-> pa @@ oa] :
               pa \in PosChoices(name), oa \in OptChoices(name)} : name \in Range(CommandNames)}

NoArgs(name) == [n \in ParamNames(name) \cup OptionNames(name) |-> Absent]

\* a few calls of different tools
FewCalls ==
    {[tool |-> "install", passed |-> [NoArgs("install") EXCEPT !["names"] = List(<<"wget">>)]],
     [tool |-> "list", passed |-> [NoArgs("list") EXCEPT !["versions"] = Bool(TRUE)]],
     [tool |-> "doctor", passed |-> NoArgs("doctor")]}

\* the same, and a call whose argument holds a quote
ExecCalls ==
    FewCalls \cup
    {[tool |-> "search", passed |-> [NoArgs("search") EXCEPT !["query"] = Str("w\"get")]]}

OutTokens == {" ", "ok", "bad formula"}
Texts == SeqsUpTo(OutTokens, MaxOut)
ReturnCodes == {0, 1}

\* what a child may leave behind: its output and its exit code
ProcResults == [stdout : Texts, stderr : Texts, returncode : ReturnCodes]

FewResults ==
    {[stdout |-> <<"ok">>, stderr |-> <<>>, returncode |-> 0],
     [stdout |-> <<>>, stderr |-> <<"bad formula">>, returncode |-> 1]}

\* the description of every entry of the catalog as the file has it
CatalogDescriptions ==
    [n \in Range(CommandNames) |-> [present |-> TRUE, text |-> COMMANDS[n].description]]

\* catalogs create_tool_function may be handed: the one of the file, and
\* the same with the description of one entry left out or left empty
Catalogs ==
    {CatalogDescriptions}
    \cup {[CatalogDescriptions EXCEPT ![n] = d] :
             n \in Range(CommandNames),
             d \in {[present |-> FALSE, text |-> ""], [present |-> TRUE, text |-> ""]}}

\* the directories a PATH of the model is made of
PathEntries == {<<"/usr/bin">>, <<homebrew_sbin>>, <<homebrew_sbin, "-old">>}

\* os.pathsep.join(entries)
RECURSIVE JoinPath(_)
JoinPath(entries) ==
    IF entries = <<>> THEN <<>>
    ELSE IF Len(entries) = 1 THEN entries[1]
    ELSE entries[1] \o <<":">> \o JoinPath(Tail(entries))

PathTexts == {JoinPath(entries) : entries \in SeqsUpTo(PathEntries, MaxPath)}

EnvironNames == {"PATH", "HOME", "HOMEBREW_GITHUB_API_TOKEN"}

EnvironOf(names, path) ==
    [n \in names |-> IF n = "PATH" THEN path
                     ELSE IF n = "HOME" THEN <<"/Users/me">>
                     ELSE <<"ghp_token">>]

\* the environments the server may be started in
Environs == {EnvironOf(names, path) : names \in SUBSET EnvironNames, path \in PathTexts}

LoginEnviron == EnvironOf(EnvironNames, <<"/usr/bin">>)

(***************************************************************************)
(* Specifications.                                                         *)
(***************************************************************************)
\* the process as python starts it, before main() runs
Started ==
    /\ pc = "start"
    /\ todo = CommandNames
    /\ registry = <<>>
    /\ log = <<>>
    /\ lock = 0
    /\ call = [i \in Threads |-> IdleCall]
    /\ nInvoked = 0

\* the catalog as written in the file, and the environment of a login shell
Init ==
    /\ Started
    /\ descriptions = CatalogDescriptions
    /\ environ = LoginEnviron

Steps(i, Results) ==
    \/ SpawnStarted(i)
    \/ SpawnNotFound(i)
    \/ SpawnFails(i)
    \/ RunReturns(i, Results)
    \/ ChildHangs(i)
    \/ LogAcquire(i)
    \/ LogEmit(i)
    \/ Return(i)

\* one call of any tool with any arguments, dispatched after startup
Next == Main \/ Invoke(1, ToolCalls, 1) \/ Steps(1, FewResults)

Spec == Init /\ [][Next]_vars

\* one call whose child may print and exit in every way within the bounds
ExecNext == Main \/ Invoke(1, ExecCalls, 1) \/ Steps(1, ProcResults)

ExecSpec == Init /\ [][ExecNext]_vars

\* calls dispatched on two threads, which may overlap
ConcNext == Main \/ \E i \in Threads : Invoke(i, FewCalls, MaxCalls) \/ Steps(i, FewResults)

ConcSpec == Init /\ [][ConcNext]_vars

\* each thread goes on running while it can take a step, and a child that
\* has not hung exits
Fairness == \A i \in Threads : WF_vars(Steps(i, FewResults))

FairSpec == Init /\ [][ConcNext]_vars /\ Fairness

\* the server started in any environment, then one call
EnvInit ==
    /\ Started
    /\ descriptions = CatalogDescriptions
    /\ environ \in Environs

EnvNext == Main \/ Invoke(1, FewCalls, 1) \/ Steps(1, FewResults)

EnvSpec == EnvInit /\ [][EnvNext]_vars

\* the server started on any of the catalogs, then one call
CatalogInit ==
    /\ Started
    /\ descriptions \in Catalogs
    /\ environ = LoginEnviron

CatalogNext == Main \/ Invoke(1, FewCalls, 1) \/ Steps(1, FewResults)

CatalogSpec == CatalogInit /\ [][CatalogNext]_vars

(***************************************************************************)
(* What the claims speak of.                                               *)
(***************************************************************************)
\* the call reached the body of the tool function, which built a command
Built(c) == c.pc # "idle" /\ c.exc.type # "TypeError"

\* the lines of the log that invocation id wrote as brew_command records
RecordsOf(id) == {k \in 1..Len(log) : log[k].id = id /\ log[k].event = "brew_command"}

\* an empty or absent value
IsEmpty(v) == v \in {Absent, None, Str(""), List(<<>>)}

\* the required parameters of the call that are empty or absent
EmptyRequired(c) ==
    {p.name : p \in {q \in Range(COMMANDS[c.tool].params) :
                        q.required /\ IsEmpty(c.passed[q.name])}}

\* C1 (as claimed): a call whose required positional parameter is empty or
\* absent (not passed, None, "", []) fails with a missing-argument error
\* naming that parameter, and neither execute_brew_command nor
\* subprocess.run is reached for it.
C1_EmptyRequiredIsRejected ==
    \A i \in Threads :
        (call[i].pc # "idle" /\ EmptyRequired(call[i]) # {}) =>
            /\ call[i].pc = "raised"
            /\ call[i].exc.param \in EmptyRequired(call[i])
            /\ call[i].outcome = ""

\* the tokens a positional value stands for, lists flattened in their order
PositionalValues(v) ==
    CASE v.k = "str" -> <<v.s>>
      [] v.k = "list" -> v.l
      [] OTHER -> <<>>

\* the tokens an option stands for: the flag of a true boolean option, the
\* flag and the value of a string option that has a non-empty value
ExpectedOption(option, v) ==
    IF option.type = "bool" THEN (IF v = Bool(TRUE) THEN <<option.flag>> ELSE <<>>)
    ELSE (IF v.k = "str" /\ v.s # "" THEN <<option.flag, v.s>> ELSE <<>>)

RECURSIVE ExpectedPositionals(_, _)
ExpectedPositionals(params, passed) ==
    IF params = <<>> THEN <<>>
    ELSE PositionalValues(passed[Head(params).name])
         \o ExpectedPositionals(Tail(params), passed)

RECURSIVE ExpectedOptions(_, _)
ExpectedOptions(options, passed) ==
    IF options = <<>> THEN <<>>
    ELSE ExpectedOption(Head(options), passed[Head(options).name])
         \o ExpectedOptions(Tail(options), passed)

\* C2 (as claimed): for every command and every combination of argument
\* values, the vector handed to the executor is ['brew'] + baseArgs + the
\* positional values in declared order (lists flattened) + the option
\* tokens in declared order; it is a function of the inputs alone, and it
\* carries no option token when no option is passed.
C2_ArgumentVectorIsExact ==
    \A i \in Threads :
        Built(call[i]) =>
            call[i].command =
                <<"brew">> \o BaseCommand(call[i].tool)
                \o ExpectedPositionals(COMMANDS[call[i].tool].params, call[i].passed)
                \o ExpectedOptions(COMMANDS[call[i].tool].options, call[i].passed)

\* Beside C2: for every call whose required parameters are all non-empty
\* the vector is the expected one.
ValidCallsHaveExactVector ==
    \A i \in Threads :
        (Built(call[i]) /\ EmptyRequired(call[i]) = {}) =>
            call[i].command =
                <<"brew">> \o BaseCommand(call[i].tool)
                \o ExpectedPositionals(COMMANDS[call[i].tool].params, call[i].passed)
                \o ExpectedOptions(COMMANDS[call[i].tool].options, call[i].passed)

\* the child ran to completion and subprocess.run returned
Ran(c) == c.outcome = "started" /\ c.child = "reaped"

\* C3 (as claimed): when the process ran to completion the call is a
\* success iff the exit code is 0; on success the message is the captured
\* stdout, on failure it is the captured stderr, or the captured stdout
\* when stderr is empty.
C3_MessageIsCapturedOutput ==
    \A i \in Threads :
        (call[i].pc = "returned" /\ Ran(call[i])) =>
            call[i].ret =
                IF call[i].proc.returncode = 0 THEN call[i].proc.stdout
                ELSE IF call[i].proc.stderr # <<>> THEN call[i].proc.stderr
                ELSE call[i].proc.stdout

\* t is s without its leading and trailing whitespace
IsStripOf(t, s) ==
    \E a \in 0..Len(s) : \E b \in a..Len(s) :
        /\ t = SubSeq(s, a + 1, b)
        /\ \A k \in (1..a) \cup ((b + 1)..Len(s)) : s[k] \in Whitespace
        /\ t # <<>> => (t[1] \notin Whitespace /\ t[Len(t)] \notin Whitespace)

\* C3 (amended): when the process ran to completion, with exit code 0 the
\* returned message is the captured stdout without its surrounding
\* whitespace, or "Command executed successfully." when nothing is left;
\* with any other exit code it is "Error: " followed by the stripped
\* stderr, or by the stripped stdout when the stripped stderr is empty.
C3_MessageIsStrippedOutput ==
    \A i \in Threads :
        (call[i].pc = "returned" /\ Ran(call[i])) =>
            \E out \in Texts : \E err \in Texts :
                /\ IsStripOf(out, call[i].proc.stdout)
                /\ IsStripOf(err, call[i].proc.stderr)
                /\ call[i].proc.returncode = 0 =>
                       call[i].ret = (IF out = <<>> THEN SuccessMessage ELSE out)
                /\ call[i].proc.returncode # 0 =>
                       call[i].ret = <<"Error: ">> \o (IF err = <<>> THEN out ELSE err)

\* a failed command whose message had to fall back to stdout, which was
\* stripped on the way
C3_Witness ==
    \E i \in Threads :
        /\ call[i].pc = "returned"
        /\ call[i].proc = [stdout |-> <<" ", "bad formula">>, stderr |-> <<" ">>,
                           returncode |-> 1]
        /\ call[i].ret = <<"Error: ", "bad formula">>

\* the executor failed: the exit code was not 0, or brew was not found
ExecutorFailed(c) ==
    \/ c.outcome = "notfound"
    \/ Ran(c) /\ c.proc.returncode # 0

\* C4 (as claimed): when the executor fails, the tool callable ends with an
\* error outcome, not a normal return value, and the server keeps serving.
C4_FailureIsRaised ==
    \A i \in Threads :
        (Finished(call[i]) /\ ExecutorFailed(call[i])) =>
            call[i].pc = "raised" /\ pc = "serving"

\* C4 (amended): when the executor fails (non-zero exit code or brew not
\* found), the tool callable raises nothing: it returns the failure message
\* as its normal return value, a text that begins with "Error: ", and the
\* server keeps serving and can take the next call.
C4_FailureIsReturnedText ==
    \A i \in Threads :
        (ExecutorFailed(call[i]) /\ call[i].pc \in {"log", "emit", "ret", "returned", "raised"}) =>
            /\ call[i].pc # "raised"
            /\ call[i].exc = NoExc
            /\ pc = "serving"
            /\ call[i].pc = "returned" =>
                   /\ call[i].ret # <<>>
                   /\ Head(call[i].ret) = "Error: "
                   /\ nInvoked < MaxCalls => ENABLED Invoke(i, FewCalls, MaxCalls)

\* a call that failed and returned, and a later call that was served
C4_Witness ==
    \E i \in Threads : \E j \in Threads :
        /\ call[i].pc = "returned"
        /\ Ran(call[i])
        /\ call[i].proc.returncode = 1
        /\ call[i].ret = <<"Error: ", "bad formula">>
        /\ call[j].id > call[i].id
        /\ ~call[j].conc
        /\ call[j].pc = "returned"

\* C5 (as claimed): every call of execute_brew_command, whatever its
\* outcome (exit 0, non-zero exit, brew not found, any other spawn
\* failure), has appended exactly one audit record carrying the command by
\* the time it returns or raises.
C5_OneRecordPerCall ==
    \A i \in Threads :
        (Finished(call[i]) /\ Built(call[i])) =>
            /\ Cardinality(RecordsOf(call[i].id)) = 1
            /\ \A k \in RecordsOf(call[i].id) : log[k].command = call[i].command

\* Beside C5 and C9: a call that returns has written exactly one record,
\* holding its command; only a call that raises has written none.
ReturnedCallsLoggedOnce ==
    \A i \in Threads :
        /\ call[i].pc = "returned" =>
               /\ Cardinality(RecordsOf(call[i].id)) = 1
               /\ \A k \in RecordsOf(call[i].id) : log[k].command = call[i].command
        /\ call[i].pc = "raised" => RecordsOf(call[i].id) = {}

\* C6 (as claimed): no call of execute_brew_command blocks indefinitely: a
\* call that waits for its child ends, also when the child never exits.
C6_NoCallBlocksIndefinitely ==
    \A i \in Threads : (call[i].pc = "wait") ~> Finished(call[i])

\* C7: when brew cannot be located, execute_brew_command does not raise; it
\* returns the message that Homebrew must be installed and in the PATH,
\* and by then it has written one audit record, at level ERROR, holding
\* the command and that message.
C7_NotFoundIsReturnedAndLogged ==
    \A i \in Threads :
        call[i].outcome = "notfound" =>
            /\ call[i].pc # "raised"
            /\ call[i].pc = "returned" =>
                   /\ call[i].ret =
                        <<"Error: ",
                          "'brew' command not found. Make sure Homebrew is installed and in your PATH.">>
                   /\ Cardinality(RecordsOf(call[i].id)) = 1
                   /\ \A k \in RecordsOf(call[i].id) :
                          /\ log[k].command = call[i].command
                          /\ log[k].level = "ERROR"
                          /\ log[k].result.kind = "error"
                          /\ log[k].result.error = call[i].ret

\* a call that found no brew and has returned
C7_Witness ==
    \E i \in Threads :
        /\ call[i].outcome = "notfound"
        /\ call[i].pc = "returned"
        /\ call[i].command = <<"brew", "install", "wget">>

RegisteredNames == [k \in 1..Len(registry) |-> registry[k].name]

\* C8: once main() has reached app.run(), the registered tool names are
\* the catalog's keys, each registered once; and when an entry cannot be
\* registered, startup ends there: no call is ever served, and the serving
\* state is not reached afterwards.
C8_AllToolsOrNoServing ==
    /\ [](pc = "serving" =>
            /\ Len(registry) = Cardinality(DOMAIN COMMANDS)
            /\ Range(RegisteredNames) = DOMAIN COMMANDS)
    /\ [](pc = "aborted" => nInvoked = 0)
    /\ [][pc = "aborted" => pc' = "aborted"]_vars

\* the server is serving, with every tool registered
C8_Witness == pc = "serving" /\ Len(registry) = 16 /\ nInvoked = 1

\* C9 (as claimed): two invocations of different operations that overlap
\* both complete with exactly one audit record each, under every
\* interleaving, and every line of the log is one whole record written by
\* one invocation.
C9_ConcurrentCallsLogOnce ==
    \A i \in Threads : \A j \in Threads \ {i} :
        (/\ Finished(call[i]) /\ Finished(call[j])
         /\ call[i].conc /\ call[j].conc
         /\ call[i].tool # call[j].tool) =>
            /\ Cardinality(RecordsOf(call[i].id)) = 1
            /\ Cardinality(RecordsOf(call[j].id)) = 1
            /\ \A k \in 1..Len(log) : log[k].id \in {0} \cup (1..nInvoked)

\* the tokens at the end of the command, after the positional values
OptionTail(c) ==
    LET n == Len(ExpectedOptions(COMMANDS[c.tool].options, c.passed))
    IN IF n > Len(c.command) THEN <<>>
       ELSE SubSeq(c.command, Len(c.command) - n + 1, Len(c.command))

\* the tokens of the positional values the caller passed
PassedPositionalTokens(c) ==
    UNION {Range(PositionalValues(c.passed[n])) : n \in ParamNames(c.tool)}

\* C10: a boolean option set true adds its flag token exactly once, at its
\* place in the declared order of the options; left false or not passed it
\* adds nothing: the option tokens are the last tokens of the command, and
\* every token between the base command and them is a positional value.
C10_BooleanOptionAddsItsFlagOnce ==
    \A i \in Threads :
        Built(call[i]) =>
            LET command == call[i].command
                options == COMMANDS[call[i].tool].options
                tail == OptionTail(call[i])
                first == Len(command) - Len(tail) + 1
                positional == PassedPositionalTokens(call[i])
            IN /\ tail = ExpectedOptions(options, call[i].passed)
               /\ \A o \in Range(options) :
                      o.type = "bool" =>
                          Cardinality({k \in first..Len(command) : command[k] = o.flag})
                          = (IF call[i].passed[o.name] = Bool(TRUE) THEN 1 ELSE 0)
               /\ \A k \in (Len(BaseCommand(call[i].tool)) + 2)..(first - 1) :
                      command[k] \in positional

\* install with the second and third options true and the first one false
C10_Witness ==
    \E i \in Threads :
        /\ call[i].tool = "install"
        /\ call[i].passed["cask"] = Bool(FALSE)
        /\ call[i].passed["force"] = Bool(TRUE)
        /\ call[i].passed["verbose"] = Bool(TRUE)
        /\ call[i].command = <<"brew", "install", "wget", "--force", "--verbose">>

\* C11: every brew_command record of the log round-trips: the line
\* JsonFormatter writes parses as JSON, and its "command" member is, token
\* for token and in order, the argument vector handed to subprocess.run
\* for that call.
C11_LoggedCommandRoundTrips ==
    \A k \in 1..Len(log) :
        log[k].event = "brew_command" =>
            /\ ~JsonLoadsCommand(JsonDumps(log[k])).bad
            /\ \A i \in Threads :
                   call[i].id = log[k].id =>
                       JsonLoadsCommand(JsonDumps(log[k])).value = call[i].command

\* the record of a command whose argument holds a quote has been written
C11_Witness ==
    \E k \in 1..Len(log) : \E i \in Threads :
        /\ log[k].event = "brew_command"
        /\ call[i].id = log[k].id
        /\ call[i].outcome = "started"
        /\ call[i].command = <<"brew", "search", "w\"get">>
        /\ JsonLoadsCommand(JsonDumps(log[k])).value = <<"brew", "search", "w\"get">>

\* the place of the first token of option j of the call: the tokens of the
\* options declared before it come first
OptionStart(c, j) ==
    LET options == COMMANDS[c.tool].options
    IN Len(c.command) - Len(ExpectedOptions(options, c.passed))
       + Len(ExpectedOptions(SubSeq(options, 1, j - 1), c.passed)) + 1

\* C14: a string option (info's json_format) adds exactly the two tokens
\* flag, str(value) at its place in the declared order of the options when
\* its value is present and not empty, and no token when the value is None,
\* empty or not passed.
C14_StringOptionAddsFlagAndValue ==
    \A i \in Threads :
        Built(call[i]) =>
            LET command == call[i].command
                options == COMMANDS[call[i].tool].options
                after == Len(BaseCommand(call[i].tool)) + 2
            IN \A j \in 1..Len(options) :
                   options[j].type = "str" =>
                       LET v == call[i].passed[options[j].name]
                           start == OptionStart(call[i], j)
                           flags == {k \in after..Len(command) : command[k] = options[j].flag}
                       IN IF v.k = "str" /\ v.s # ""
                          THEN /\ flags = {start}
                               /\ start + 1 <= Len(command)
                               /\ command[start + 1] = v.s
                               /\ Len(command) - start + 1
                                  = 2 + Len(ExpectedOptions(SubSeq(options, j + 1, Len(options)),
                                                            call[i].passed))
                          ELSE flags = {}

\* info(name="wget", json_format="v2") has been built
C14_Witness ==
    \E i \in Threads :
        /\ call[i].tool = "info"
        /\ call[i].passed["json_format"] = Str("v2")
        /\ call[i].command = <<"brew", "info", "wget", "--json", "v2">>

\* info with json_format empty or None has been built: no option token
C14_WitnessEmpty ==
    \E i \in Threads :
        /\ call[i].tool = "info"
        /\ call[i].passed["json_format"] \in {None, Str("")}
        /\ call[i].command = <<"brew", "info", "wget">>

\* C15: execute_brew_command never returns an empty string: with exit code
\* 0 and a stdout that is empty or all whitespace it returns "Command
\* executed successfully.", and on every failure path (exit code not 0,
\* brew not found) the returned text begins with "Error: ".
C15_ReturnedTextIsNeverEmpty ==
    \A i \in Threads :
        call[i].pc = "returned" =>
            /\ call[i].ret # <<>>
            /\ \A k \in 1..Len(call[i].ret) : call[i].ret[k] # ""
            /\ (/\ Ran(call[i])
                /\ call[i].proc.returncode = 0
                /\ \A k \in 1..Len(call[i].proc.stdout) :
                       call[i].proc.stdout[k] \in Whitespace)
               => call[i].ret = SuccessMessage
            /\ ExecutorFailed(call[i]) => Head(call[i].ret) = "Error: "

\* brew exited with 0 and printed only whitespace: the fixed text came back
C15_Witness ==
    \E i \in Threads :
        /\ call[i].pc = "returned"
        /\ call[i].proc = [stdout |-> <<" ">>, stderr |-> <<>>, returncode |-> 0]
        /\ call[i].ret = <<"Command executed successfully.">>

\* brew exited with 1 and printed nothing at all: "Error: " came back
C15_WitnessFailure ==
    \E i \in Threads :
        /\ call[i].pc = "returned"
        /\ call[i].proc = [stdout |-> <<>>, stderr |-> <<>>, returncode |-> 1]
        /\ call[i].ret = <<"Error: ">>

\* the serving server holds a tool whose description is the empty string
EmptyDescriptionServed ==
    pc = "serving" /\ \E k \in 1..Len(registry) : registry[k].description = ""

\* C12 (as claimed): the system refuses to register an operation whose
\* description is missing or empty: no tool with an empty description is
\* in the registry when the server is serving.
C12_NoEmptyDescriptionServed == ~EmptyDescriptionServed

\* an entry without a description is never registered, and the server does
\* not serve: config['description'] raises and main() ends
MissingDescriptionAborts ==
    /\ \A k \in 1..Len(registry) : descriptions[registry[k].name].present
    /\ (\E n \in Range(CommandNames) : ~descriptions[n].present) => pc # "serving"

\* the entries of a PATH text: the text split at ":"
RECURSIVE SplitPath(_)
SplitPath(text) ==
    IF text = <<>> THEN << <<>> >>
    ELSE LET rest == SplitPath(Tail(text))
         IN IF Head(text) = ":" THEN << <<>> >> \o rest
            ELSE << <<Head(text)>> \o Head(rest) >> \o Tail(rest)

\* dir is one of the directories of the PATH text
InPath(dir, text) == \E k \in 1..Len(SplitPath(text)) : SplitPath(text)[k] = <<dir>>

\* the child of the call was spawned
Spawned(c) == c.outcome = "started"

\* C13 (as claimed): for every spawn, the environment of the child has
\* exactly the keys PATH and HOME, whatever the server's environment holds;
\* PATH is the server's PATH, with /opt/homebrew/sbin put before it when
\* that directory is not already in it.
C13_ChildEnvIsPathAndHome ==
    \A i \in Threads :
        Spawned(call[i]) =>
            /\ DOMAIN call[i].env = {"PATH", "HOME"}
            /\ call[i].env["PATH"] =
                   IF InPath(homebrew_sbin, EnvironGet(environ, "PATH"))
                   THEN EnvironGet(environ, "PATH")
                   ELSE <<homebrew_sbin, ":">> \o EnvironGet(environ, "PATH")

\* what the code does: the keys are PATH and HOME, HOME is the server's
\* HOME or "", and PATH is the server's PATH, with /opt/homebrew/sbin put
\* before it unless the PATH text holds the characters "/opt/homebrew/sbin"
ChildEnvIsWhitelist ==
    \A i \in Threads :
        Spawned(call[i]) =>
            /\ DOMAIN call[i].env = {"PATH", "HOME"}
            /\ call[i].env["HOME"] = EnvironGet(environ, "HOME")
            /\ call[i].env["PATH"] =
                   IF \E k \in 1..Len(SplitPath(EnvironGet(environ, "PATH"))) :
                          Contains(SplitPath(EnvironGet(environ, "PATH"))[k], homebrew_sbin)
                   THEN EnvironGet(environ, "PATH")
                   ELSE <<homebrew_sbin, ":">> \o EnvironGet(environ, "PATH")

====
